---- MODULE Spec2Model ----
(***************************************************************************)
(* Model of the calculation layer of app.py (Tri-Framework Oracle): the    *)
(* arbitrage engine, the pressure gauge, the trend classifier and the      *)
(* Fibonacci engine, with the handlers of main() that call them.           *)
(*                                                                         *)
(* Numbers.  Every number in app.py is a Python float (a binary floating-  *)
(* point number, rounded to nearest, ties to even, after each arithmetic   *)
(* operation).  A number is modelled as a reduced fraction <<n, d>>, d > 0,*)
(* and every arithmetic operation of the source is the exact operation on  *)
(* fractions followed by Round, which rounds to Precision significant bits.*)
(* Python's float has 53 significant bits; the model is written for any    *)
(* precision and checked at a small one, so that its integers stay within  *)
(* the range of the model checker.  The exponent range is not bounded:     *)
(* overflow to infinity and underflow are outside the model.               *)
(***************************************************************************)
EXTENDS Integers, Sequences, FiniteSets, TLC

\* ---------------------------------------------------------------- bounds
\* significant bits of a float in the model
Precision == 5
\* longest odds list passed to process_arbitrage_calculation
MaxOutcomes == 3

\* ------------------------------------------------------ exact fractions
Abs(i) == IF i < 0 THEN -i ELSE i

RECURSIVE GCD(_, _)
GCD(a, b) == IF b = 0 THEN a ELSE GCD(b, a % b)

RECURSIVE Pow2(_)
Pow2(k) == IF k = 0 THEN 1 ELSE 2 * Pow2(k - 1)

\* the reduced fraction n/d (d # 0)
Frac(n, d) ==
    LET g == GCD(Abs(n), Abs(d))
        s == IF d < 0 THEN -1 ELSE 1
    IN  << (s * n) \div g, (s * d) \div g >>

Zero == <<0, 1>>
One == <<1, 1>>

RAdd(x, y) == Frac(x[1] * y[2] + y[1] * x[2], x[2] * y[2])
RSub(x, y) == Frac(x[1] * y[2] - y[1] * x[2], x[2] * y[2])
RMul(x, y) == Frac(x[1] * y[1], x[2] * y[2])
RDiv(x, y) == Frac(x[1] * y[2], x[2] * y[1])
RNeg(x) == << -x[1], x[2] >>
RAbs(x) == << Abs(x[1]), x[2] >>
Less(x, y) == x[1] * y[2] < y[1] * x[2]
Leq(x, y) == x[1] * y[2] <= y[1] * x[2]

\* ------------------------------------------------- floating-point values
\* Scale n/d (n > 0) by a power of two into [2^(Precision-1), 2^Precision):
\* the result <<n', d', e>> has n/d = (n'/d') * 2^e.
RECURSIVE Scale(_, _, _)
Scale(n, d, e) ==
    IF n >= d * Pow2(Precision) THEN Scale(n, 2 * d, e + 1)
    ELSE IF n < d * Pow2(Precision - 1) THEN Scale(2 * n, d, e - 1)
    ELSE <<n, d, e>>

\* the float nearest to the fraction x, ties to the even significand
Round(x) ==
    IF x[1] = 0 THEN Zero
    ELSE LET s == Scale(Abs(x[1]), x[2], 0)
             q == s[1] \div s[2]
             r == s[1] - q * s[2]
             m == IF 2 * r > s[2] \/ (2 * r = s[2] /\ q % 2 = 1)
                  THEN q + 1 ELSE q
             sg == IF x[1] < 0 THEN -1 ELSE 1
         IN  IF s[3] >= 0 THEN Frac(sg * m * Pow2(s[3]), 1)
             ELSE Frac(sg * m, Pow2(-(s[3])))

\* Python's float +, -, *, / (the divisor of FDiv is not zero)
FAdd(x, y) == Round(RAdd(x, y))
FSub(x, y) == Round(RSub(x, y))
FMul(x, y) == Round(RMul(x, y))
FDiv(x, y) == Round(RDiv(x, y))

\* ----------------------------------------------------- arbitrage engine
\* A call that may raise returns [raised |-> message or "None", value |-> v].
NoError == "None"
Return(v) == [raised |-> NoError, value |-> v]
Raise(msg) == [raised |-> msg, value |-> <<>>]

\* x / y: Python raises ZeroDivisionError on a zero divisor
Divide(x, y) ==
    IF y = Zero THEN Raise("float division by zero")
    ELSE Return(FDiv(x, y))

calculate_implied_probability(decimal_odds) ==
    IF Leq(decimal_odds, Zero) THEN Zero
    ELSE FDiv(One, decimal_odds)

\* sum(): a left fold of float additions starting from 0
RECURSIVE calculate_total_implied_probability(_)
calculate_total_implied_probability(implied_probs) ==
    IF implied_probs = <<>> THEN Zero
    ELSE FAdd(calculate_total_implied_probability(
                  SubSeq(implied_probs, 1, Len(implied_probs) - 1)),
              implied_probs[Len(implied_probs)])

\* (variant: the stakes not divided by the total)
calculate_stakes_NoTotal(bankroll, implied_probs, total_implied) ==
    Return([i \in 1..Len(implied_probs) |->
               FMul(bankroll, implied_probs[i])])

\* (variant: no stake for an outcome of probability 0)
calculate_stakes_SkipZero(bankroll, implied_probs, total_implied) ==
    LET probs == SelectSeq(implied_probs, LAMBDA q : q # Zero)
    IN  IF probs # <<>> /\ total_implied = Zero
        THEN Raise("float division by zero")
        ELSE Return([i \in 1..Len(probs) |->
                        FDiv(FMul(bankroll, probs[i]), total_implied)])

\* one division per probability; the first one that raises ends the loop
calculate_stakes(bankroll, implied_probs, total_implied) ==
    LET stake == [i \in 1..Len(implied_probs) |->
                     Divide(FMul(bankroll, implied_probs[i]), total_implied)]
    IN  IF \E i \in 1..Len(implied_probs) : stake[i].raised # NoError
        THEN Raise("float division by zero")
        ELSE Return([i \in 1..Len(implied_probs) |-> stake[i].value])

\* stakes[0]
FirstItem(list) ==
    IF list = <<>> THEN Raise("list index out of range")
    ELSE Return(list[1])

\* (variant: the except branch leaves the error unset)
ErrorResult_NoMessage(msg) ==
    [is_arb_found |-> FALSE, stakes |-> <<>>, profit |-> Zero,
     total_implied |-> Zero, implied_probs |-> <<>>, error |-> NoError]

\* the dictionary returned by the except branch
ErrorResult(msg) ==
    [is_arb_found |-> FALSE, stakes |-> <<>>, profit |-> Zero,
     total_implied |-> Zero, implied_probs |-> <<>>, error |-> msg]

\* (variant: the boundary 1.0 counted as an arbitrage)
IsArbFound_Inclusive(total_implied) == Leq(total_implied, One)

\* is_arb_found = total_implied < 1.0
IsArbFound(total_implied) == Less(total_implied, One)

\* (variant: the stake itself taken for the payout)
Profit_NoOdds(stake0, odds0, bankroll) == FSub(stake0, bankroll)

\* profit = (stakes[0] * odds_list[0]) - bankroll
Profit(stake0, odds0, bankroll) == FSub(FMul(stake0, odds0), bankroll)

process_arbitrage_calculation(odds_list, bankroll) ==
    LET implied_probs == [i \in 1..Len(odds_list) |->
                             calculate_implied_probability(odds_list[i])]
        total_implied == calculate_total_implied_probability(implied_probs)
        is_arb_found == IsArbFound(total_implied)
        stakes == calculate_stakes(bankroll, implied_probs, total_implied)
        first == FirstItem(stakes.value)
    IN  IF is_arb_found
        THEN IF stakes.raised # NoError THEN ErrorResult(stakes.raised)
             ELSE IF first.raised # NoError THEN ErrorResult(first.raised)
             ELSE [is_arb_found |-> TRUE,
                   stakes |-> stakes.value,
                   profit |-> Profit(first.value, odds_list[1], bankroll),
                   total_implied |-> total_implied,
                   implied_probs |-> implied_probs,
                   error |-> NoError]
        ELSE [is_arb_found |-> FALSE, stakes |-> <<>>, profit |-> Zero,
              total_implied |-> total_implied,
              implied_probs |-> implied_probs, error |-> NoError]

\* ------------------------------------------------------- pressure gauge
\* (variant: no check of a zero total)
calculate_pressure_gauge_NoGuard(long_oi, short_oi) ==
    Divide(FSub(long_oi, short_oi), FAdd(long_oi, short_oi))

calculate_pressure_gauge(long_oi, short_oi) ==
    LET total_oi == FAdd(long_oi, short_oi)
    IN  IF total_oi = Zero THEN Return(Zero)
        ELSE Divide(FSub(long_oi, short_oi), total_oi)

\* the float literals of the interpretation in main()
Lit_0_5 == Round(<<1, 2>>)
Lit_0_2 == Round(<<1, 5>>)
Lit_0_7 == Round(<<7, 10>>)
Lit_0_3 == Round(<<3, 10>>)

\* (variant: the thresholds 0.5 and -0.5 counted as extreme)
PrimaryBand_Inclusive(pressure_gauge) ==
    IF Leq(Lit_0_5, pressure_gauge) THEN "EXTREME LONGS"
    ELSE IF Leq(pressure_gauge, RNeg(Lit_0_5)) THEN "EXTREME SHORTS"
    ELSE IF Less(Lit_0_2, pressure_gauge) THEN "HIGH LONGS"
    ELSE IF Less(pressure_gauge, RNeg(Lit_0_2)) THEN "HIGH SHORTS"
    ELSE "BALANCED"

\* the band of the "Interpretation" block
PrimaryBand(pressure_gauge) ==
    IF Less(Lit_0_5, pressure_gauge) THEN "EXTREME LONGS"
    ELSE IF Less(pressure_gauge, RNeg(Lit_0_5)) THEN "EXTREME SHORTS"
    ELSE IF Less(Lit_0_2, pressure_gauge) THEN "HIGH LONGS"
    ELSE IF Less(pressure_gauge, RNeg(Lit_0_2)) THEN "HIGH SHORTS"
    ELSE "BALANCED"

\* the message of the "Analysis" block ("" when none is shown)
Analysis(pressure_gauge) ==
    IF Less(Lit_0_7, pressure_gauge) THEN "EXTREME LONG CONGESTION"
    ELSE IF Less(pressure_gauge, RNeg(Lit_0_7)) THEN "EXTREME SHORT CONGESTION"
    ELSE IF Less(Lit_0_3, RAbs(pressure_gauge))
         THEN IF Less(Zero, pressure_gauge) THEN "POSITIONING ASYMMETRY LONG"
              ELSE "POSITIONING ASYMMETRY SHORT"
    ELSE ""

\* ------------------------------------------------------ trend classifier
\* (variant: a price equal to the average counts as bullish)
calculate_trend_status_Inclusive(current_price, ma50) ==
    IF Leq(ma50, current_price)
    THEN <<"BULLISH (AETOS ACTIVE)", "green">>
    ELSE <<"BEARISH (KHRUSOS ACTIVE)", "red">>

\* the pair (label, symbol) returned
calculate_trend_status(current_price, ma50) ==
    IF Less(ma50, current_price)
    THEN <<"BULLISH (AETOS ACTIVE)", "green">>
    ELSE <<"BEARISH (KHRUSOS ACTIVE)", "red">>

\* the "Tri-Framework Status" block of the Market Analysis tab
FrameworkStatus(current_price, ma50) ==
    IF Less(ma50, current_price) THEN "AETOS PROTOCOL ACTIVE"
    ELSE "KHRUSOS PROTOCOL ACTIVE"

\* ------------------------------------------------------ Fibonacci engine
\* the float literals of calculate_fibonacci_levels
Lit_0_236 == Round(<<236, 1000>>)
Lit_0_382 == Round(<<382, 1000>>)
Lit_0_500 == Round(<<500, 1000>>)
Lit_0_618 == Round(<<618, 1000>>)
Lit_0_786 == Round(<<786, 1000>>)

\* (variant: the retracements measured up from the low)
calculate_fibonacci_levels_FromLow(high, low) ==
    LET diff == FSub(high, low)
    IN  << [name |-> "23.6%", value |-> FAdd(low, FMul(diff, Lit_0_236))],
           [name |-> "38.2%", value |-> FAdd(low, FMul(diff, Lit_0_382))],
           [name |-> "50.0%", value |-> FAdd(low, FMul(diff, Lit_0_500))],
           [name |-> "61.8%", value |-> FAdd(low, FMul(diff, Lit_0_618))],
           [name |-> "78.6%", value |-> FAdd(low, FMul(diff, Lit_0_786))],
           [name |-> "support", value |-> low],
           [name |-> "resistance", value |-> high] >>

\* The dictionary returned, as the sequence of its items in insertion
\* order (the order in which a dict is iterated).
calculate_fibonacci_levels(high, low) ==
    LET diff == FSub(high, low)
    IN  << [name |-> "23.6%", value |-> FSub(high, FMul(diff, Lit_0_236))],
           [name |-> "38.2%", value |-> FSub(high, FMul(diff, Lit_0_382))],
           [name |-> "50.0%", value |-> FSub(high, FMul(diff, Lit_0_500))],
           [name |-> "61.8%", value |-> FSub(high, FMul(diff, Lit_0_618))],
           [name |-> "78.6%", value |-> FSub(high, FMul(diff, Lit_0_786))],
           [name |-> "support", value |-> low],
           [name |-> "resistance", value |-> high] >>

\* fib_levels[name]
LevelValue(fib_levels, name) ==
    fib_levels[CHOOSE i \in 1..Len(fib_levels) :
                   fib_levels[i].name = name].value

\* (variant: of equal keys the last one wins)
RECURSIVE MinIndex_LastWins(_, _, _)
MinIndex_LastWins(keys, best, i) ==
    IF i > Len(keys) THEN best
    ELSE IF Leq(keys[i], keys[best]) THEN MinIndex_LastWins(keys, i, i + 1)
    ELSE MinIndex_LastWins(keys, best, i + 1)

\* min(keys, key=...): the index of the first item whose key is not above
\* that of any other; best is the index kept so far, i the next to look at
RECURSIVE MinIndex(_, _, _)
MinIndex(keys, best, i) ==
    IF i > Len(keys) THEN best
    ELSE IF Less(keys[i], keys[best]) THEN MinIndex(keys, i, i + 1)
    ELSE MinIndex(keys, best, i + 1)

\* Market Analysis tab:
\* closest_fib = min(fib_levels.values(), key=lambda x: abs(x - price))
\* fib_distance = abs(price - closest_fib)
ClosestValue(fib_levels, current_price) ==
    LET keys == [i \in 1..Len(fib_levels) |->
                    RAbs(FSub(fib_levels[i].value, current_price))]
        closest_fib == fib_levels[MinIndex(keys, 1, 2)].value
    IN  [closest_fib |-> closest_fib,
         fib_distance |-> RAbs(FSub(current_price, closest_fib))]

\* Fibonacci Engine tab:
\* distances = {name: abs(price - value) ...}
\* closest_level = min(distances, key=distances.get)
ClosestLevel(fib_levels, current_price_fib) ==
    LET distances == [i \in 1..Len(fib_levels) |->
                         RAbs(FSub(current_price_fib, fib_levels[i].value))]
        k == MinIndex(distances, 1, 2)
    IN  [closest_level |-> fib_levels[k].name,
         closest_distance |-> distances[k],
         closest_value |-> LevelValue(fib_levels, fib_levels[k].name)]

\* the dictionary multipliers
multipliers ==
    [t \in {"1m", "5m", "15m", "30m", "1h", "4h", "1d", "1w"} |->
        CASE t = "1m" -> 1
          [] t = "5m" -> 5
          [] t = "15m" -> 15
          [] t = "30m" -> 30
          [] t = "1h" -> 60
          [] t = "4h" -> 240
          [] t = "1d" -> 1440
          [] t = "1w" -> 10080]

\* (variant: the default is the smallest multiplier, not the 1h one)
calculate_timeframe_multiplier_DefaultOne(timeframe) ==
    IF timeframe \in DOMAIN multipliers THEN multipliers[timeframe]
    ELSE 1

\* multipliers.get(timeframe, 60)
calculate_timeframe_multiplier(timeframe) ==
    IF timeframe \in DOMAIN multipliers THEN multipliers[timeframe]
    ELSE 60

\* the items of the loops that skip 'support' and 'resistance'
Retracements(fib_levels) ==
    SelectSeq(fib_levels,
              LAMBDA item : item.name \notin {"support", "resistance"})

\* what the "Analyze Market Structure" button of main() shows
MarketAnalysis(current_price, ma50, recent_high, recent_low) ==
    LET fib_levels == calculate_fibonacci_levels(recent_high, recent_low)
        trend == calculate_trend_status(current_price, ma50)
        shown == Retracements(fib_levels)
        closest == ClosestValue(fib_levels, current_price)
        compression_distance == FSub(recent_high, recent_low)
    IN  [fib_levels |-> fib_levels,
         trend_status |-> trend[1],
         trend_emoji |-> trend[2],
         colors |-> [i \in 1..Len(shown) |->
                        IF Less(RAbs(FSub(current_price, shown[i].value)),
                                <<1000, 1>>)
                        THEN "green" ELSE "white"],
         closest_fib |-> closest.closest_fib,
         fib_distance |-> closest.fib_distance,
         framework |-> FrameworkStatus(current_price, ma50),
         compression_distance |-> compression_distance,
         compression |-> Less(compression_distance, <<1000, 1>>)]

\* what the "Calculate Fibonacci Analysis" button of main() shows
FibonacciAnalysis(high_price, low_price, current_price_fib, timeframe) ==
    LET fib_levels == calculate_fibonacci_levels(high_price, low_price)
        shown == Retracements(fib_levels)
        closest == ClosestLevel(fib_levels, current_price_fib)
        distance(v) == RAbs(FSub(current_price_fib, v))
        multiplier == calculate_timeframe_multiplier(timeframe)
    IN  [fib_levels |-> fib_levels,
         closest_level |-> closest.closest_level,
         closest_value |-> closest.closest_value,
         closest_distance |-> closest.closest_distance,
         notes |-> [i \in 1..Len(shown) |->
                       IF Less(distance(shown[i].value), <<500, 1>>)
                       THEN "NEAR"
                       ELSE IF Less(distance(shown[i].value), <<1000, 1>>)
                       THEN "APPROACHING" ELSE ""],
         multiplier |-> multiplier,
         mode |-> IF multiplier <= 60 THEN "MAGNIFYING GLASS"
                  ELSE IF multiplier <= 1440 THEN "BALANCED VIEW"
                  ELSE "BINOCULARS",
         bias |-> IF Less(LevelValue(fib_levels, "50.0%"), current_price_fib)
                  THEN "ABOVE 50%" ELSE "BELOW 50%",
         key_zone |->
             \/ Less(distance(LevelValue(fib_levels, "38.2%")), <<500, 1>>)
             \/ Less(distance(LevelValue(fib_levels, "61.8%")), <<500, 1>>)]

\* ------------------------------------------------------------- inputs
OddsValues == { <<-2, 1>>, <<0, 1>>, <<5, 4>>, <<3, 2>>, <<2, 1>>,
                <<3, 1>>, <<13, 4>>, <<4, 1>>, <<21, 4>> }
OddsLists == UNION { [1..n -> OddsValues] : n \in 0..MaxOutcomes }
Bankrolls == { <<1, 1>>, <<3, 1>>, <<100, 1>> }
OpenInterests == { <<0, 1>>, <<1, 1>>, <<2, 1>>, <<3, 1>>, <<4, 1>>,
                   <<5, 1>>, <<7, 1>>, <<9, 1>>, <<3, 2>>, <<100, 1>> }
Prices == { <<0, 1>>, <<2, 1>>, <<20, 1>>, <<32, 1>>, <<34, 1>>,
            <<1024, 1>>, <<4096, 1>> }
MovingAverages == { <<0, 1>>, <<32, 1>> }
\* the options of the timeframe selectbox
TimeframeOptions == {"1m", "5m", "15m", "30m", "1h", "4h", "1d", "1w"}
\* labels passed to calculate_timeframe_multiplier
TimeframeLabels == TimeframeOptions \cup {"unknown", "2h", ""}

\* -------------------------------------------------------------- state
\* call: the operation this run performs; done: whether it has been made.
\* odds_list, bankroll, result: the arguments and the return value of
\* process_arbitrage_calculation.  stakes_call: what that call did at
\* calculate_stakes.  long_oi, short_oi: the inputs of the pressure tab;
\* pressure_gauge, band, analysis: what its handler computed and showed;
\* pressure_raised: the exception that handler let escape ("None" if none).
\* current_price, ma50, recent_high, recent_low: the inputs of the Market
\* Analysis tab; market: what its handler showed.  high_price, low_price,
\* current_price_fib, timeframe: the inputs of the Fibonacci Engine tab (and
\* timeframe the argument of a call of calculate_timeframe_multiplier);
\* fib: what its handler showed.  multiplier: the value returned by a call
\* of calculate_timeframe_multiplier.
VARIABLES call, done, odds_list, bankroll, result, stakes_call,
          long_oi, short_oi, pressure_gauge, band, analysis, pressure_raised,
          current_price, ma50, recent_high, recent_low, market,
          high_price, low_price, current_price_fib, timeframe, fib,
          multiplier

vars == <<call, done, odds_list, bankroll, result, stakes_call,
          long_oi, short_oi, pressure_gauge, band, analysis, pressure_raised,
          current_price, ma50, recent_high, recent_low, market,
          high_price, low_price, current_price_fib, timeframe, fib,
          multiplier>>

market_vars == <<current_price, ma50, recent_high, recent_low, market>>
fib_vars == <<high_price, low_price, current_price_fib, timeframe, fib,
              multiplier>>

arb_vars == <<odds_list, bankroll, result, stakes_call>>
pressure_vars == <<long_oi, short_oi, pressure_gauge, band, analysis,
                   pressure_raised>>

\* what a call of process_arbitrage_calculation does at calculate_stakes:
\* "none" (not reached), "returned" or "raised"
StakesCall(odds, b) ==
    LET implied_probs == [i \in 1..Len(odds) |->
                             calculate_implied_probability(odds[i])]
        total_implied == calculate_total_implied_probability(implied_probs)
    IN  IF ~IsArbFound(total_implied) THEN "none"
        ELSE IF calculate_stakes(b, implied_probs, total_implied).raised
                    = NoError
             THEN "returned" ELSE "raised"

\* the value of result before the call has returned
NoResult ==
    [is_arb_found |-> FALSE, stakes |-> <<>>, profit |-> Zero,
     total_implied |-> Zero, implied_probs |-> <<>>, error |-> "no result"]

\* the value of market and of fib before their buttons are pressed
NothingShown == [fib_levels |-> <<>>]

\* the inputs of the operations this run does not perform
ArbIdle == odds_list = <<>> /\ bankroll = One
PressureIdle == long_oi = Zero /\ short_oi = Zero
MarketIdle ==
    current_price = Zero /\ ma50 = Zero /\ recent_high = Zero
        /\ recent_low = Zero
FibIdle ==
    high_price = Zero /\ low_price = Zero /\ current_price_fib = Zero

\* The arguments are those of one call, fixed before it is made.
Init ==
    /\ done = FALSE
    /\ result = NoResult
    /\ stakes_call = "none"
    /\ pressure_gauge = Zero
    /\ band = ""
    /\ analysis = ""
    /\ pressure_raised = NoError
    /\ market = NothingShown
    /\ fib = NothingShown
    /\ multiplier = 0
    /\ \/ /\ call = "process_arbitrage_calculation"
          /\ odds_list \in OddsLists
          /\ bankroll \in Bankrolls
          /\ PressureIdle /\ MarketIdle /\ FibIdle /\ timeframe = "1h"
       \/ /\ call = "pressure_gauge"
          /\ long_oi \in OpenInterests
          /\ short_oi \in OpenInterests
          /\ ArbIdle /\ MarketIdle /\ FibIdle /\ timeframe = "1h"
       \/ /\ call = "market_analysis"
          /\ current_price \in Prices
          /\ ma50 \in MovingAverages
          /\ recent_high \in Prices
          /\ recent_low \in Prices
          /\ ArbIdle /\ PressureIdle /\ FibIdle /\ timeframe = "1h"
       \/ /\ call = "fibonacci_analysis"
          /\ high_price \in Prices
          /\ low_price \in Prices
          /\ current_price_fib \in Prices
          /\ timeframe \in TimeframeOptions
          /\ ArbIdle /\ PressureIdle /\ MarketIdle
       \/ /\ call = "calculate_timeframe_multiplier"
          /\ timeframe \in TimeframeLabels
          /\ ArbIdle /\ PressureIdle /\ MarketIdle /\ FibIdle

CallProcessArbitrage ==
    /\ call = "process_arbitrage_calculation"
    /\ ~done
    /\ done' = TRUE
    /\ result' = process_arbitrage_calculation(odds_list, bankroll)
    /\ stakes_call' = StakesCall(odds_list, bankroll)
    /\ UNCHANGED <<call, odds_list, bankroll, pressure_vars, market_vars,
                   fib_vars>>

\* the "Calculate Pressure Gauge" button of main()
PressureButton ==
    /\ call = "pressure_gauge"
    /\ ~done
    /\ done' = TRUE
    /\ LET r == calculate_pressure_gauge(long_oi, short_oi)
       IN  IF r.raised # NoError
           THEN /\ pressure_raised' = r.raised
                /\ UNCHANGED <<pressure_gauge, band, analysis>>
           ELSE /\ pressure_raised' = NoError
                /\ pressure_gauge' = r.value
                /\ band' = PrimaryBand(r.value)
                /\ analysis' = Analysis(r.value)
    /\ UNCHANGED <<call, long_oi, short_oi, arb_vars, market_vars, fib_vars>>

\* the "Analyze Market Structure" button of main()
MarketButton ==
    /\ call = "market_analysis"
    /\ ~done
    /\ done' = TRUE
    /\ market' = MarketAnalysis(current_price, ma50, recent_high, recent_low)
    /\ UNCHANGED <<call, current_price, ma50, recent_high, recent_low,
                   arb_vars, pressure_vars, fib_vars>>

\* the "Calculate Fibonacci Analysis" button of main()
FibonacciButton ==
    /\ call = "fibonacci_analysis"
    /\ ~done
    /\ done' = TRUE
    /\ fib' = FibonacciAnalysis(high_price, low_price, current_price_fib,
                                timeframe)
    /\ UNCHANGED <<call, high_price, low_price, current_price_fib, timeframe,
                   multiplier, arb_vars, pressure_vars, market_vars>>

CallTimeframeMultiplier ==
    /\ call = "calculate_timeframe_multiplier"
    /\ ~done
    /\ done' = TRUE
    /\ multiplier' = calculate_timeframe_multiplier(timeframe)
    /\ UNCHANGED <<call, high_price, low_price, current_price_fib, timeframe,
                   fib, arb_vars, pressure_vars, market_vars>>

Next ==
    \/ CallProcessArbitrage
    \/ PressureButton
    \/ MarketButton
    \/ FibonacciButton
    \/ CallTimeframeMultiplier

Spec == Init /\ [][Next]_vars

\* ------------------------------------------------- claims: definitions
ArbDone == call = "process_arbitrage_calculation" /\ done
PressureDone == call = "pressure_gauge" /\ done

\* the unit roundoff of the floats, 2^-Precision: one rounding changes a
\* value by at most this fraction of it
UnitRoundoff == Frac(1, Pow2(Precision))

\* |x - y| <= k * UnitRoundoff * |y|
Within(x, y, k) ==
    Leq(RAbs(RSub(x, y)), RMul(RMul(<<k, 1>>, UnitRoundoff), RAbs(y)))

\* |x - y| <= k * UnitRoundoff * |scale|
Near(x, y, scale, k) ==
    Leq(RAbs(RSub(x, y)), RMul(RMul(<<k, 1>>, UnitRoundoff), RAbs(scale)))

\* exact (unrounded) sum of a list of numbers
RECURSIVE ExactSum(_)
ExactSum(list) ==
    IF list = <<>> THEN Zero
    ELSE RAdd(list[1], ExactSum(SubSeq(list, 2, Len(list))))

\* float sum of a list, added from the first element on
RECURSIVE SumFrom(_, _)
SumFrom(acc, list) ==
    IF list = <<>> THEN acc
    ELSE SumFrom(Round(RAdd(acc, list[1])), SubSeq(list, 2, Len(list)))

\* the exact reciprocals of a list of positive odds
Reciprocals(odds) == [i \in 1..Len(odds) |-> RDiv(One, odds[i])]

AllAboveOne(odds) == \A i \in 1..Len(odds) : Less(One, odds[i])
SomeNonPositive(odds) == \E i \in 1..Len(odds) : Leq(odds[i], Zero)

C2_Original ==
    ArbDone /\ Len(odds_list) >= 2 /\ AllAboveOne(odds_list)
            /\ Less(Zero, bankroll)
            /\ Less(ExactSum(Reciprocals(odds_list)), One) =>
        /\ result.is_arb_found
        /\ result.error = NoError
        /\ Less(Zero, result.profit)

\* C2 amended: for odds all above 1, at least two of them, and a positive
\* bankroll, if the total the code computes (the float sum of the float
\* reciprocals) is below 1 the result has is_arb_found = TRUE,
\* error = None and profit >= 0.
C2_ArbGivesNonNegativeProfit ==
    ArbDone /\ Len(odds_list) >= 2 /\ AllAboveOne(odds_list)
            /\ Less(Zero, bankroll)
            /\ Less(SumFrom(Zero, [i \in 1..Len(odds_list) |->
                                     Round(RDiv(One, odds_list[i]))]), One) =>
        /\ result.is_arb_found
        /\ result.error = NoError
        /\ Leq(Zero, result.profit)

\* an arbitrage over odds above 1 with a positive profit
C2_Witness ==
    /\ ArbDone
    /\ odds_list = << <<3, 1>>, <<3, 1>>, <<4, 1>> >>
    /\ bankroll = <<100, 1>>
    /\ result.is_arb_found
    /\ result.error = NoError
    /\ Less(Zero, result.profit)

\* ------------------------------------------------------------------ C3
\* C3: whenever is_arb_found is TRUE, the payout stakes[i] * odds[i] is the
\* same for every outcome i and equals bankroll / total_implied, and the
\* reported profit equals stakes[i] * odds[i] - bankroll for every i.
\* Equality is taken up to the rounding of the float operations involved
\* (four roundings lead to a payout), the reading most favourable to the
\* claim; the payouts of an outcome with non-positive odds still differ.
C3_EqualPayouts ==
    ArbDone /\ result.is_arb_found =>
        LET target == RDiv(bankroll, result.total_implied)
            payout == [i \in 1..Len(odds_list) |->
                          FMul(result.stakes[i], odds_list[i])]
        IN  \A i \in 1..Len(odds_list) :
                /\ Near(payout[i], target, target, 5)
                /\ Near(payout[i], payout[1], target, 10)
                /\ Near(result.profit, RSub(payout[i], bankroll), target, 10)

\* ------------------------------------------------------------------ C4
\* C4 as stated: whenever is_arb_found is TRUE, the returned stakes sum
\* exactly to the bankroll.
C4_Original ==
    ArbDone /\ result.is_arb_found => ExactSum(result.stakes) = bankroll

\* C4 amended: whenever is_arb_found is TRUE, the returned stakes sum to the
\* bankroll up to rounding: the sum differs from the bankroll by at most
\* (number of outcomes + 2) unit roundoffs of the bankroll.
C4_StakesSumNearBankroll ==
    ArbDone /\ result.is_arb_found =>
        Within(ExactSum(result.stakes), bankroll, Len(odds_list) + 2)

\* an arbitrage over three outcomes whose stakes do not sum to the bankroll
C4_Witness ==
    /\ ArbDone
    /\ result.is_arb_found
    /\ Len(result.stakes) = 3
    /\ ExactSum(result.stakes) # bankroll
    /\ Within(ExactSum(result.stakes), bankroll, 5)

\* ------------------------------------------------------------------ C5
\* C5: every result has as many stakes as there are odds when is_arb_found
\* is TRUE, and no stakes and a profit of 0 when it is FALSE, with or
\* without an error.
C5_ResultShape ==
    ArbDone =>
        /\ result.is_arb_found => Len(result.stakes) = Len(odds_list)
        /\ ~result.is_arb_found =>
               result.stakes = <<>> /\ result.profit = Zero

\* an arbitrage that includes an outcome of non-positive odds, with one
\* stake per outcome
C5_Witness ==
    /\ ArbDone
    /\ result.is_arb_found
    /\ SomeNonPositive(odds_list)
    /\ Len(odds_list) = 2
    /\ Len(result.stakes) = 2

\* ------------------------------------------------------------------ C6
\* C6: a call with an empty odds list returns (it does not raise) the
\* result with is_arb_found = FALSE, no stakes, profit 0, total_implied 0,
\* no implied probabilities and a non-empty error description.
C6_EmptyOddsGivesError ==
    ArbDone /\ odds_list = <<>> =>
        /\ ~result.is_arb_found
        /\ result.stakes = <<>>
        /\ result.profit = Zero
        /\ result.total_implied = Zero
        /\ result.implied_probs = <<>>
        /\ result.error \notin {NoError, ""}

\* the call with no odds has returned, reporting the failed stakes[0]
C6_Witness ==
    /\ ArbDone
    /\ odds_list = <<>>
    /\ stakes_call = "returned"
    /\ result.error = "list index out of range"

\* ------------------------------------------------------------------ C7
\* C7: for a non-empty odds list with a non-positive element the result
\* carries an error, with is_arb_found = FALSE, no stakes and profit 0.
C7_NonPositiveOddsGiveError ==
    ArbDone /\ odds_list # <<>> /\ SomeNonPositive(odds_list) =>
        /\ result.error # NoError
        /\ ~result.is_arb_found
        /\ result.stakes = <<>>
        /\ result.profit = Zero

\* ------------------------------------------------------------------ C8
\* C8: when the total implied probability is 0, calculate_stakes (reached
\* because 0 < 1 passes the arbitrage check) yields a value instead of
\* raising an exception to be caught further up.
C8_ZeroTotalDoesNotRaise ==
    ArbDone /\ calculate_total_implied_probability(
                   [i \in 1..Len(odds_list) |->
                       calculate_implied_probability(odds_list[i])]) = Zero =>
        stakes_call = "returned"

\* ------------------------------------------------------------------ C9
\* C9: for long_oi >= 0 and short_oi >= 0, calculate_pressure_gauge returns
\* 0 when both are 0 and otherwise the float quotient of the float
\* difference by the float sum, which is (long_oi - short_oi) / (long_oi +
\* short_oi) up to three roundings; the result lies in [-1, 1] and no
\* division by zero happens.
C9_PressureRatio ==
    PressureDone =>
        /\ pressure_raised = NoError
        /\ Leq(<<-1, 1>>, pressure_gauge) /\ Leq(pressure_gauge, One)
        /\ long_oi = Zero /\ short_oi = Zero => pressure_gauge = Zero
        /\ RAdd(long_oi, short_oi) # Zero =>
               /\ pressure_gauge = Round(RDiv(Round(RSub(long_oi, short_oi)),
                                              Round(RAdd(long_oi, short_oi))))
               /\ Within(pressure_gauge,
                         RDiv(RSub(long_oi, short_oi),
                              RAdd(long_oi, short_oi)), 4)

\* the gauge of zero open interest on both sides was computed
C9_Witness ==
    /\ PressureDone
    /\ long_oi = Zero
    /\ short_oi = Zero
    /\ pressure_raised = NoError
    /\ pressure_gauge = Zero

MarketDone == call = "market_analysis" /\ done
FibDone == call = "fibonacci_analysis" /\ done
TimeframeDone == call = "calculate_timeframe_multiplier" /\ done

\* the seven values from resistance down to support
Descending(fib_levels) ==
    [i \in 1..7 |->
        LevelValue(fib_levels,
                   <<"resistance", "23.6%", "38.2%", "50.0%", "61.8%",
                     "78.6%", "support">>[i])]

\* every value in [low, high], support = low and resistance = high
LevelsWithin(fib_levels, high, low) ==
    /\ \A i \in 1..Len(fib_levels) :
           Leq(low, fib_levels[i].value) /\ Leq(fib_levels[i].value, high)
    /\ LevelValue(fib_levels, "support") = low
    /\ LevelValue(fib_levels, "resistance") = high

StrictlyDescending(fib_levels) ==
    \A i \in 1..6 :
        Less(Descending(fib_levels)[i + 1], Descending(fib_levels)[i])

WeaklyDescending(fib_levels) ==
    \A i \in 1..6 :
        Leq(Descending(fib_levels)[i + 1], Descending(fib_levels)[i])

AllEqual(fib_levels) ==
    \A i \in 1..Len(fib_levels) : fib_levels[i].value = fib_levels[1].value

\* C11 as stated: for high > low every level lies in [low, high], support
\* is low, resistance is high and resistance > 23.6% > 38.2% > 50.0% >
\* 61.8% > 78.6% > support; for high = low all seven values are equal.
C11_Original ==
    FibDone =>
        /\ Less(low_price, high_price) =>
               /\ LevelsWithin(fib.fib_levels, high_price, low_price)
               /\ StrictlyDescending(fib.fib_levels)
        /\ low_price = high_price => AllEqual(fib.fib_levels)

\* C11 amended: for high > low every level lies in [low, high], support is
\* low, resistance is high and resistance >= 23.6% >= 38.2% >= 50.0% >=
\* 61.8% >= 78.6% >= support (neighbouring levels may round to the same
\* float); for high = low all seven values are equal.
C11_LevelsOrdered ==
    FibDone =>
        /\ Less(low_price, high_price) =>
               /\ LevelsWithin(fib.fib_levels, high_price, low_price)
               /\ WeaklyDescending(fib.fib_levels)
        /\ low_price = high_price => AllEqual(fib.fib_levels)

\* levels of a swing from 2 to 20, all different and in order
C11_Witness ==
    /\ FibDone
    /\ high_price = <<20, 1>>
    /\ low_price = <<2, 1>>
    /\ LevelsWithin(fib.fib_levels, high_price, low_price)
    /\ StrictlyDescending(fib.fib_levels)

\* ----------------------------------------------------------------- C12
\* position of a level in the order 23.6%, 38.2%, 50.0%, 61.8%, 78.6%,
\* support, resistance
Position(name) ==
    CHOOSE i \in 1..7 :
        <<"23.6%", "38.2%", "50.0%", "61.8%", "78.6%", "support",
          "resistance">>[i] = name

\* abs(price - value), as the float the program computes
Distance(price, value) == RAbs(Round(RSub(price, value)))

\* the entry at position k of levels is a nearest one to price: no entry
\* has a smaller distance, and none before it has an equal one
NearestFirst(levels, price, k) ==
    /\ levels[k].name =
           <<"23.6%", "38.2%", "50.0%", "61.8%", "78.6%", "support",
             "resistance">>[k]
    /\ \A j \in 1..7 :
           /\ Leq(Distance(price, levels[k].value),
                  Distance(price, levels[j].value))
           /\ j < k => Less(Distance(price, levels[k].value),
                            Distance(price, levels[j].value))

\* the exact |price - value|
ExactDistance(price, value) == RAbs(RSub(price, value))

\* the entry at position k is a nearest one by the exact distance, and the
\* first of the nearest ones
ExactNearestFirst(levels, price, k) ==
    \A j \in 1..7 :
        /\ Leq(ExactDistance(price, levels[k].value),
               ExactDistance(price, levels[j].value))
        /\ j < k => Less(ExactDistance(price, levels[k].value),
                         ExactDistance(price, levels[j].value))

\* C12 as stated: the entry returned has the least |price - value| of the
\* seven entries and is the first of those that have it, and the two tabs
\* report the same value and distance.
C12_Original ==
    /\ FibDone =>
           /\ ExactNearestFirst(fib.fib_levels, current_price_fib,
                                Position(fib.closest_level))
           /\ ClosestValue(fib.fib_levels, current_price_fib) =
                  [closest_fib |-> fib.closest_value,
                   fib_distance |-> fib.closest_distance]
    /\ MarketDone =>
           LET other == ClosestLevel(market.fib_levels, current_price)
           IN  /\ market.closest_fib = other.closest_value
               /\ market.fib_distance = other.closest_distance

\* C12: the labelled lookup of the Fibonacci Engine tab returns an entry
\* whose distance abs(price - value), as the program computes it in floating
\* point, is minimal over the seven entries, the
\* first such entry in the order 23.6%, 38.2%, 50.0%, 61.8%, 78.6%,
\* support, resistance; the value-only lookup of the Market Analysis tab
\* reports the same value and distance for the same levels and price.
C12_NearestLevel ==
    /\ FibDone =>
           LET k == Position(fib.closest_level)
           IN  /\ NearestFirst(fib.fib_levels, current_price_fib, k)
               /\ fib.closest_value = fib.fib_levels[k].value
               /\ fib.closest_distance =
                      Distance(current_price_fib, fib.closest_value)
               /\ ClosestValue(fib.fib_levels, current_price_fib) =
                      [closest_fib |-> fib.closest_value,
                       fib_distance |-> fib.closest_distance]
    /\ MarketDone =>
           LET other == ClosestLevel(market.fib_levels, current_price)
           IN  /\ market.closest_fib = other.closest_value
               /\ market.fib_distance = other.closest_distance
               /\ NearestFirst(market.fib_levels, current_price,
                               Position(other.closest_level))

\* the price is as near to resistance as to 23.6% (and nearer than to
\* support), and the lookup reported 23.6%
C12_Witness ==
    /\ FibDone
    /\ Less(low_price, high_price)
    /\ fib.closest_level = "23.6%"
    /\ Distance(current_price_fib, LevelValue(fib.fib_levels, "resistance"))
           = fib.closest_distance
    /\ Less(fib.closest_distance,
            Distance(current_price_fib, LevelValue(fib.fib_levels, "support")))

\* ----------------------------------------------------------------- C13
\* C13: the trend label is BULLISH exactly when current_price > ma50 and
\* BEARISH otherwise, a price equal to the average included; the framework
\* status beside it is AETOS exactly when the label is BULLISH and KHRUSOS
\* exactly when it is BEARISH.
C13_TrendStatus ==
    MarketDone =>
        /\ market.trend_status \in
               {"BULLISH (AETOS ACTIVE)", "BEARISH (KHRUSOS ACTIVE)"}
        /\ market.trend_status = "BULLISH (AETOS ACTIVE)"
               <=> Less(ma50, current_price)
        /\ current_price = ma50
               => market.trend_status = "BEARISH (KHRUSOS ACTIVE)"
        /\ market.framework \in
               {"AETOS PROTOCOL ACTIVE", "KHRUSOS PROTOCOL ACTIVE"}
        /\ market.framework = "AETOS PROTOCOL ACTIVE"
               <=> market.trend_status = "BULLISH (AETOS ACTIVE)"

\* a positive price equal to the average was classified bearish
C13_Witness ==
    /\ MarketDone
    /\ current_price = ma50
    /\ Less(Zero, current_price)
    /\ market.trend_status = "BEARISH (KHRUSOS ACTIVE)"
    /\ market.framework = "KHRUSOS PROTOCOL ACTIVE"

\* ----------------------------------------------------------------- C14
\* the table of the claim, label by label
ExpectedMultiplier(label) ==
    IF label = "1m" THEN 1
    ELSE IF label = "5m" THEN 5
    ELSE IF label = "15m" THEN 15
    ELSE IF label = "30m" THEN 30
    ELSE IF label = "1h" THEN 60
    ELSE IF label = "4h" THEN 240
    ELSE IF label = "1d" THEN 1440
    ELSE IF label = "1w" THEN 10080
    ELSE 60

\* C14: calculate_timeframe_multiplier returns 1, 5, 15, 30, 60, 240, 1440,
\* 10080 for 1m, 5m, 15m, 30m, 1h, 4h, 1d, 1w and 60 for every other label;
\* the call returns a number for every label, and the Fibonacci Engine tab
\* uses the same number.
C14_TimeframeMultiplier ==
    /\ TimeframeDone =>
           /\ multiplier \in Nat
           /\ multiplier = ExpectedMultiplier(timeframe)
           /\ timeframe \notin TimeframeOptions => multiplier = 60
    /\ FibDone => fib.multiplier = ExpectedMultiplier(timeframe)

\* a label outside the table was given and 60 came back
C14_Witness ==
    /\ TimeframeDone
    /\ timeframe = "unknown"
    /\ multiplier = 60
====
